---- MODULE Spec2Model ----
(***************************************************************************)
(* The polling scheduler of main.py with the fetcher, the detector and the *)
(* rolling CSV buffer it drives.                                           *)
(*                                                                         *)
(* Time is counted in minutes.  A data frame is a sequence of rows, a row  *)
(* a record.  A float cell is <<v>> (the number v) or <<>> (NaN); numbers  *)
(* are integers in a fixed unit, and every operation of the pipeline is    *)
(* exact on them (see Scale).                                              *)
(***************************************************************************)
EXTENDS Integers, Sequences, FiniteSets, TLC

VARIABLES
    pc,              \* the statement of main() the scheduler is about to run
    now,             \* the wall clock (minutes)
    cutoff_time,     \* main.py:57
    idx,             \* position of the for loop in TAG_PAIRS (main.py:59)
    env_str,         \* the text of the TAG_PAIRS environment variable
    tag_pairs,       \* config.TAG_PAIRS, parsed at start-up
    multiplier,      \* config.ANOMALY_STD_MULTIPLIER as <<numerator, denominator>>
    mqtt_connected,  \* main.py:30-37
    df_sp,           \* main.py:60, [ok |-> FALSE] stands for None
    df_pv,           \* main.py:61
    fetched,         \* what the two fetches of the pair just handled returned
    df,              \* the aligned, detected batch (main.py:77-84)
    anomaly_flags,   \* main.py:84
    df_existing,     \* main.py:88-97
    files,           \* the CSV file of each setpoint tag: [exists, rows]
    published,       \* payloads handed to mqtt_client.publish in this cycle
    alerts           \* number of calls of notifier.alert in this cycle

vars == <<pc, now, cutoff_time, idx, env_str, tag_pairs, multiplier, mqtt_connected,
          df_sp, df_pv, fetched, df, anomaly_flags, df_existing, files, published, alerts>>

-----------------------------------------------------------------------------
(* Bounds of the model *)

\* the clock is observed at 0..MaxTick, and again from one retention
\* period after MaxTick on
MaxTick == 1
\* the historian returns at most this many samples per request
MaxSamples == 2

(* Program constants *)

BUFFER_HOURS == 4
MinutesPerHour == 60
ToleranceMinutes == 1
ANOMALY_STD_MULTIPLIER == 3
FetchIntervalMinutes == 5

Retention == BUFFER_HOURS * MinutesPerHour

-----------------------------------------------------------------------------
(* Cells and small helpers *)

NaN == <<>>
Num(v) == <<v>>
IsNaN(x) == x = NaN
Last(s) == s[Len(s)]

RECURSIVE Factorial(_)
Factorial(n) == IF n <= 1 THEN 1 ELSE n * Factorial(n - 1)

\* The unit of the sample values: every quotient taken by the linear
\* interpolation of at most MaxSamples rows is exact in it.
Scale == Factorial(MaxSamples)

\* the instants at which the model observes the clock
Instants == (0..MaxTick) \cup { MaxTick + Retention + d : d \in 0..MaxTick }

RECURSIVE SeqSum(_)
SeqSum(s) == IF s = <<>> THEN 0 ELSE s[1] + SeqSum(Tail(s))

SelectIdx(s, Keep(_)) ==
    LET F[i \in 0..Len(s)] ==
            IF i = 0 THEN <<>>
            ELSE IF Keep(i) THEN Append(F[i - 1], s[i]) ELSE F[i - 1]
    IN  F[Len(s)]

RemoveAt(s, i) == SubSeq(s, 1, i - 1) \o SubSeq(s, i + 1, Len(s))

\* DataFrame.sort_values("Timestamp"): ascending, rows of equal key in order
RECURSIVE sort_values(_)
sort_values(rows) ==
    IF rows = <<>> THEN <<>>
    ELSE LET m == CHOOSE i \in 1..Len(rows) :
                    \A j \in 1..Len(rows) :
                        \/ rows[i].Timestamp < rows[j].Timestamp
                        \/ rows[i].Timestamp = rows[j].Timestamp /\ i <= j
         IN  <<rows[m]>> \o sort_values(RemoveAt(rows, m))

-----------------------------------------------------------------------------
(* config.py *)

\* A text is the sequence of its characters; " " stands for the white space
\* that str.strip() removes.
IsSpace(c) == c = " "

RECURSIVE lstrip(_)
lstrip(s) == IF s # <<>> /\ IsSpace(s[1]) THEN lstrip(Tail(s)) ELSE s

RECURSIVE rstrip(_)
rstrip(s) ==
    IF s # <<>> /\ IsSpace(s[Len(s)]) THEN rstrip(SubSeq(s, 1, Len(s) - 1)) ELSE s

\* str.strip()
strip(s) == rstrip(lstrip(s))

\* str.split(sep): the pieces between the separators, empty pieces included
RECURSIVE split(_, _)
split(s, sep) ==
    LET P == { i \in 1..Len(s) : s[i] = sep }
        i == CHOOSE x \in P : \A y \in P : x <= y
    IN  IF P = {} THEN <<s>>
        ELSE <<SubSeq(s, 1, i - 1)>> \o split(SubSeq(s, i + 1, Len(s)), sep)

\* config.py:14, k, v = [...]: anything but two pieces raises ValueError
Unpacks(kv) == Len(kv) = 2

\* parse_tag_pairs with break for continue: the first malformed entry ends
\* the parse
parse_tag_pairs_break(text) ==
    IF strip(text) = <<>> THEN <<>>
    ELSE LET entries == split(text, ",")
             F[i \in 0..Len(entries)] ==
                 IF i = 0 THEN <<>>
                 ELSE LET kv == split(strip(entries[i]), ":")
                      IN  IF /\ Unpacks(kv)
                             /\ \A j \in 1..(i - 1) :
                                    Unpacks(split(strip(entries[j]), ":"))
                          THEN Append(F[i - 1], <<strip(kv[1]), strip(kv[2])>>)
                          ELSE F[i - 1]
         IN  F[Len(entries)]

\* config.py:3-23
parse_tag_pairs(text) ==
    IF strip(text) = <<>> THEN <<>>
    ELSE LET entries == split(text, ",")
             F[i \in 0..Len(entries)] ==
                 IF i = 0 THEN <<>>
                 ELSE LET kv == split(strip(entries[i]), ":")
                      IN  IF Unpacks(kv)
                          THEN Append(F[i - 1], <<strip(kv[1]), strip(kv[2])>>)
                          ELSE F[i - 1]
         IN  F[Len(entries)]

\* the TAG_PAIRS text the runs of the scheduler are configured with
TagPairsEnv ==
    << "S", "P", "1", ":", "P", "V", "1", ",", "S", "P", "2", ":", "P", "V", "2" >>

\* a tag name as one string
RECURSIVE TagName(_)
TagName(chars) == IF chars = <<>> THEN "" ELSE chars[1] \o TagName(Tail(chars))

TagNames(pairs) ==
    [i \in 1..Len(pairs) |-> <<TagName(pairs[i][1]), TagName(pairs[i][2])>>]

\* config.py:26
TAG_PAIRS == TagNames(parse_tag_pairs(TagPairsEnv))

-----------------------------------------------------------------------------
(* fetcher.py *)

RECURSIVE AscendingSeq(_)
AscendingSeq(T) ==
    IF T = {} THEN <<>>
    ELSE LET m == CHOOSE x \in T : \A y \in T : x <= y
         IN  <<m>> \o AscendingSeq(T \ {m})

\* the table built from the JSON object {timestamp: value} of a response
ResponseTable(f) ==
    LET ts == AscendingSeq(DOMAIN f)
    IN  [i \in 1..Len(ts) |-> [Timestamp |-> ts[i], Value |-> f[ts[i]]]]

\* the values the historian holds for a setpoint tag and for an actual tag
SetpointValues == {Num(2 * Scale)}
ActualValues == {Num(Scale), Num(2 * Scale)}

IsSetpointTag(tag) == \E i \in 1..Len(TAG_PAIRS) : TAG_PAIRS[i][1] = tag

\* what the historian holds of a tag for the window [t - window_minutes, t]
HistorianTables(tag, t, window_minutes) ==
    LET inWindow == { x \in Instants : t - window_minutes <= x /\ x <= t }
        stamps   == { T \in SUBSET inWindow : Cardinality(T) <= MaxSamples }
        values   == IF IsSetpointTag(tag) THEN SetpointValues ELSE ActualValues
    IN  UNION { { ResponseTable(f) : f \in [T -> values] } : T \in stamps }

None == [ok |-> FALSE, rows |-> <<>>]

\* Every outcome of one call: a table on HTTP 200 with a decodable body,
\* None on any other status, on a network error and on an undecodable body.
fetch_sensor_data(tag, t, window_minutes) ==
    { [ok |-> TRUE, rows |-> r] : r \in HistorianTables(tag, t, window_minutes) }
        \cup {None}

-----------------------------------------------------------------------------
(* The alignment of main.py:75-82 *)

\* pd.merge_asof(left, right, on="Timestamp", direction="nearest",
\* tolerance=tol): a left join, each left row takes the value of the right
\* row nearest in time, the earlier one on a tie, if it is within tol.
merge_asof(left, right, tol) ==
    LET Match(t) ==
            LET back == { j \in 1..Len(right) :
                            right[j].Timestamp <= t /\ t - right[j].Timestamp <= tol }
                fwd  == { j \in 1..Len(right) :
                            right[j].Timestamp >= t /\ right[j].Timestamp - t <= tol }
                b    == CHOOSE j \in back : \A q \in back : q <= j
                f    == CHOOSE j \in fwd : \A q \in fwd : j <= q
            IN  IF back = {} /\ fwd = {} THEN NaN
                ELSE IF fwd = {} THEN right[b].Value
                ELSE IF back = {} THEN right[f].Value
                ELSE IF t - right[b].Timestamp <= right[f].Timestamp - t
                     THEN right[b].Value ELSE right[f].Value
    IN  [i \in 1..Len(left) |->
            [Timestamp |-> left[i].Timestamp,
             SetPoint  |-> left[i].Value,
             Actual    |-> Match(left[i].Timestamp)]]

\* Series.interpolate(): linear between the neighbouring valid cells, by
\* position; cells after the last valid one take its value; cells before
\* the first valid one stay NaN.
interpolate(col) ==
    [i \in 1..Len(col) |->
        IF ~IsNaN(col[i]) THEN col[i]
        ELSE LET P == { p \in 1..(i - 1) : ~IsNaN(col[p]) }
                 Q == { q \in (i + 1)..Len(col) : ~IsNaN(col[q]) }
                 p == CHOOSE x \in P : \A y \in P : y <= x
                 q == CHOOSE x \in Q : \A y \in Q : x <= y
             IN  IF P = {} THEN NaN
                 ELSE IF Q = {} THEN col[p]
                 ELSE Num(col[p][1] + ((col[q][1] - col[p][1]) * (i - p)) \div (q - p))]

bfill(col) ==
    [i \in 1..Len(col) |->
        IF ~IsNaN(col[i]) THEN col[i]
        ELSE LET Q == { q \in (i + 1)..Len(col) : ~IsNaN(col[q]) }
             IN  IF Q = {} THEN NaN
                 ELSE col[CHOOSE x \in Q : \A y \in Q : x <= y]]

ffill(col) ==
    [i \in 1..Len(col) |->
        IF ~IsNaN(col[i]) THEN col[i]
        ELSE LET P == { p \in 1..(i - 1) : ~IsNaN(col[p]) }
             IN  IF P = {} THEN NaN
                 ELSE col[CHOOSE x \in P : \A y \in P : y <= x]]

FillColumn(col) == ffill(bfill(interpolate(col)))

\* main.py:75-82: sort both series, join, sort, fill the gaps of both columns
Align(sp_rows, pv_rows) ==
    LET m  == sort_values(merge_asof(sort_values(sp_rows), sort_values(pv_rows),
                                     ToleranceMinutes))
        sp == FillColumn([i \in 1..Len(m) |-> m[i].SetPoint])
        pv == FillColumn([i \in 1..Len(m) |-> m[i].Actual])
    IN  [i \in 1..Len(m) |->
            [Timestamp |-> m[i].Timestamp, SetPoint |-> sp[i], Actual |-> pv[i]]]

-----------------------------------------------------------------------------
(* detector.py *)

\* ErrorOf with the operands exchanged: actual - setpoint
ErrorOf_reversed(r) ==
    IF IsNaN(r.SetPoint) \/ IsNaN(r.Actual) THEN NaN
    ELSE Num(r.Actual[1] - r.SetPoint[1])

\* detector.py:21, NaN if either operand is
ErrorOf(r) ==
    IF IsNaN(r.SetPoint) \/ IsNaN(r.Actual) THEN NaN
    ELSE Num(r.SetPoint[1] - r.Actual[1])

\* the numbers of a column, its NaN cells skipped as pandas skips them
ValidCells(col) ==
    LET kept == SelectIdx(col, LAMBDA i : ~IsNaN(col[i]))
    IN  [i \in 1..Len(kept) |-> kept[i][1]]

\* Series.mean(): the rational num/den, NaN for a column without numbers
Mean(col) ==
    LET v == ValidCells(col)
    IN  IF Len(v) = 0 THEN [nan |-> TRUE, num |-> 0, den |-> 1]
        ELSE [nan |-> FALSE, num |-> SeqSum(v), den |-> Len(v)]

\* StdSquared with the population divisor n in place of n - 1
StdSquared_population(col) ==
    LET v == ValidCells(col)
        n == Len(v)
        S == SeqSum(v)
        Q == SeqSum([i \in 1..n |-> v[i] * v[i]])
    IN  IF n < 2 THEN [nan |-> TRUE, num |-> 0, den |-> 1]
        ELSE [nan |-> FALSE, num |-> n * Q - S * S, den |-> n * n]

\* Series.std(), the sample standard deviation (divisor n - 1), kept as its
\* square num/den; NaN for fewer than two numbers
StdSquared(col) ==
    LET v == ValidCells(col)
        n == Len(v)
        S == SeqSum(v)
        Q == SeqSum([i \in 1..n |-> v[i] * v[i]])
    IN  IF n < 2 THEN [nan |-> TRUE, num |-> 0, den |-> 1]
        ELSE [nan |-> FALSE, num |-> n * Q - S * S, den |-> n * (n - 1)]

\* ThresholdSquared without the multiplier: threshold = std
ThresholdSquared_unscaled(k, std2) ==
    [nan |-> std2.nan, num |-> std2.num, den |-> std2.den]

\* detector.py:28, threshold = k * std, kept as its square
ThresholdSquared(k, std2) ==
    [nan |-> std2.nan, num |-> k[1] * k[1] * std2.num, den |-> k[2] * k[2] * std2.den]

\* Exceeds with >= for >
Exceeds_inclusive(err, mean, thr2) ==
    IF IsNaN(err) \/ mean.nan \/ thr2.nan THEN FALSE
    ELSE LET dev == err[1] * mean.den - mean.num
         IN  dev * dev * thr2.den >= thr2.num * mean.den * mean.den

\* detector.py:33, np.abs(err - mean) > threshold; a comparison with NaN is False
Exceeds(err, mean, thr2) ==
    IF IsNaN(err) \/ mean.nan \/ thr2.nan THEN FALSE
    ELSE LET dev == err[1] * mean.den - mean.num
         IN  dev * dev * thr2.den > thr2.num * mean.den * mean.den

\* detector.py:21-33 on one pair's table: the Error and Anomaly columns
detect_anomalies(rows, k) ==
    LET err  == [i \in 1..Len(rows) |-> ErrorOf(rows[i])]
        mean == Mean(err)
        thr2 == ThresholdSquared(k, StdSquared(err))
    IN  [i \in 1..Len(rows) |->
            [Timestamp |-> rows[i].Timestamp,
             SetPoint  |-> rows[i].SetPoint,
             Actual    |-> rows[i].Actual,
             Error     |-> err[i],
             Anomaly   |-> Exceeds(err[i], mean, thr2)]]

\* detector.py:37, the pair-level boolean
AnyAnomaly(rows) == \E i \in 1..Len(rows) : rows[i].Anomaly

\* main.py:84: the detected table and the pair's flag
detect_anomalies_for_pair(rows, k) ==
    LET out == detect_anomalies(rows, k)
    IN  [df |-> out, anomaly_flags |-> AnyAnomaly(out)]

-----------------------------------------------------------------------------
(* The rolling buffer of main.py:86-98 *)

NoFile == [exists |-> FALSE, rows |-> <<>>]

\* MergeExisting as an append: every existing row and the whole batch
MergeExisting_append(file, batch) ==
    IF file.exists THEN sort_values(file.rows) \o batch ELSE batch

\* main.py:88-93: the table the update starts from
MergeExisting(file, batch) ==
    IF file.exists
    THEN LET existing == sort_values(file.rows)
         IN  IF batch # <<>>
             THEN SubSeq(existing, 2, Len(existing)) \o <<Last(batch)>>
             ELSE existing
    ELSE batch

\* drop_duplicates left out: every row is kept
drop_duplicates_none(rows) == rows

\* main.py:95
drop_duplicates(rows) ==
    SelectIdx(rows, LAMBDA i :
        \A j \in (i + 1)..Len(rows) : rows[j].Timestamp # rows[i].Timestamp)

\* main.py:96
KeepSince(rows, cutoff) ==
    SelectIdx(rows, LAMBDA i : rows[i].Timestamp >= cutoff)

\* main.py:88-97: the table written to the pair's file
UpdateWindow(file, batch, cutoff) ==
    sort_values(KeepSince(drop_duplicates(MergeExisting(file, batch)), cutoff))

-----------------------------------------------------------------------------
(* main.py: the scheduler *)

\* the multipliers the runs are configured with: the default, and a
\* sensitive setting at which a batch of two rows can be flagged
Multipliers == { <<ANOMALY_STD_MULTIPLIER, 1>>, <<1, 2>> }

SetpointTags == { TAG_PAIRS[i][1] : i \in 1..Len(TAG_PAIRS) }

sp_tag == tag_pairs[idx][1]
pv_tag == tag_pairs[idx][2]

\* the local variables of the loop body, dead between two pairs
NoTable == <<>>

\* a fetch returned None ("none"), an empty table ("empty") or samples ("data")
Outcome(r) == IF ~r.ok THEN "none" ELSE IF r.rows = <<>> THEN "empty" ELSE "data"
NotFetched == [sp |-> "pending", pv |-> "pending"]

Init ==
    /\ pc = "cycle"
    /\ now = 0
    /\ cutoff_time = 0
    /\ idx = 1
    /\ env_str = TagPairsEnv
    /\ tag_pairs = TAG_PAIRS
    /\ multiplier \in Multipliers
    /\ mqtt_connected \in BOOLEAN
    /\ df_sp = None
    /\ df_pv = None
    /\ fetched = NotFetched
    /\ df = NoTable
    /\ anomaly_flags = FALSE
    /\ df_existing = NoTable
    /\ files = [t \in SetpointTags |-> NoFile]
    /\ published = <<>>
    /\ alerts = 0

\* the end of the loop body: the for loop takes the next pair, or the
\* cycle goes to sleep after the last one
ToNextPair ==
    /\ idx' = IF idx < Len(tag_pairs) THEN idx + 1 ELSE idx
    /\ pc' = IF idx < Len(tag_pairs) THEN "fetch_sp" ELSE "sleep"
    /\ df_sp' = None
    /\ df_pv' = None
    /\ df' = NoTable
    /\ anomaly_flags' = FALSE
    /\ df_existing' = NoTable

\* the exceptions nothing in main() catches, by the statement that raised
Crashed == {"read_error", "write_error"}

\* an exception leaves main(): the process ends and its variables with it
Crash(exc) ==
    /\ pc' = exc
    /\ df_sp' = None
    /\ df_pv' = None
    /\ df' = NoTable
    /\ anomaly_flags' = FALSE
    /\ df_existing' = NoTable

\* main.py:55-59
StartCycle ==
    /\ pc = "cycle"
    /\ fetched' = NotFetched
    /\ cutoff_time' = now - Retention
    /\ idx' = 1
    /\ pc' = IF Len(tag_pairs) = 0 THEN "sleep" ELSE "fetch_sp"
    /\ published' = <<>>
    /\ alerts' = 0
    /\ UNCHANGED <<now, env_str, tag_pairs, multiplier, mqtt_connected, df_sp, df_pv, df,
                   anomaly_flags, df_existing, files>>

\* main.py:60
FetchSetpoint ==
    /\ pc = "fetch_sp"
    /\ \E r \in fetch_sensor_data(sp_tag, now, BUFFER_HOURS * MinutesPerHour) : df_sp' = r
    /\ fetched' = NotFetched
    /\ pc' = "fetch_pv"
    /\ UNCHANGED <<now, cutoff_time, idx, env_str, tag_pairs, multiplier, mqtt_connected,
                   df_pv, df, anomaly_flags, df_existing, files, published, alerts>>

\* the outcomes of the second fetch of the pair (main.py:61)
ActualFetches == fetch_sensor_data(pv_tag, now, BUFFER_HOURS * MinutesPerHour)

\* main.py:63-68: one of the two fetches returned None
FetchFailed(pv) == ~(df_sp.ok /\ pv.ok)

\* EmptyData with "and" for "or": only two empty series count as empty data
EmptyData_both(pv) ==
    /\ df_sp.ok /\ pv.ok
    /\ df_sp.rows = <<>> /\ pv.rows = <<>>

\* main.py:70, 107-108: both fetched, one of the series is empty
EmptyData(pv) ==
    /\ df_sp.ok /\ pv.ok
    /\ df_sp.rows = <<>> \/ pv.rows = <<>>

\* main.py:61-68: a fetch failed, the pair is skipped
FetchFailedSkip ==
    /\ pc = "fetch_pv"
    /\ \E o \in { Outcome(r) : r \in { x \in ActualFetches : FetchFailed(x) } } :
          fetched' = [sp |-> Outcome(df_sp), pv |-> o]
    /\ ToNextPair
    /\ UNCHANGED <<now, cutoff_time, env_str, tag_pairs, multiplier, mqtt_connected,
                   files, published, alerts>>

\* main.py:61-70, 107-108: empty data, the pair is skipped
EmptyDataSkip ==
    /\ pc = "fetch_pv"
    /\ \E o \in { Outcome(r) : r \in { x \in ActualFetches : EmptyData(x) } } :
          fetched' = [sp |-> Outcome(df_sp), pv |-> o]
    /\ ToNextPair
    /\ UNCHANGED <<now, cutoff_time, env_str, tag_pairs, multiplier, mqtt_connected,
                   files, published, alerts>>

\* main.py:61-84: both series hold samples; align them and detect
AlignAndDetect ==
    /\ pc = "fetch_pv"
    /\ df_sp.ok
    /\ df_sp.rows # <<>>
    /\ \E pv \in ActualFetches :
          /\ ~FetchFailed(pv)
          /\ ~EmptyData(pv)
          /\ LET res == detect_anomalies_for_pair(Align(df_sp.rows, pv.rows),
                                                  multiplier)
             IN  /\ df' = res.df
                 /\ anomaly_flags' = res.anomaly_flags
                 /\ fetched' = [sp |-> Outcome(df_sp), pv |-> Outcome(pv)]
    /\ df_sp' = None
    /\ df_pv' = None
    /\ pc' = "update"
    /\ UNCHANGED <<now, cutoff_time, idx, env_str, tag_pairs, multiplier, mqtt_connected,
                   df_existing, files, published, alerts>>

\* main.py:86-99: read the pair's file, merge, deduplicate, cut, sort, write
UpdateBuffer ==
    /\ pc = "update"
    /\ df_existing' = UpdateWindow(files[sp_tag], df, cutoff_time)
    /\ files' = [files EXCEPT ![sp_tag] = [exists |-> TRUE, rows |-> df_existing']]
    /\ pc' = "publish"
    /\ UNCHANGED <<fetched, now, cutoff_time, idx, env_str, tag_pairs, multiplier, mqtt_connected,
                   df_sp, df_pv, df, anomaly_flags, published, alerts>>

\* main.py:88: read_csv raises something other than FileNotFoundError (the
\* file is there but cannot be read or parsed); nothing in main() catches it
ReadFails ==
    /\ pc = "update"
    /\ files[sp_tag].exists
    /\ Crash("read_error")
    /\ UNCHANGED <<fetched, now, cutoff_time, idx, env_str, tag_pairs, multiplier, mqtt_connected,
                   files, published, alerts>>

\* main.py:98: to_csv raises (the file cannot be written); nothing catches it
WriteFails ==
    /\ pc = "update"
    /\ Crash("write_error")
    /\ UNCHANGED <<fetched, now, cutoff_time, idx, env_str, tag_pairs, multiplier, mqtt_connected,
                   files, published, alerts>>

\* PublishRow without the test of mqtt_connected
PublishRow_unconnected ==
    /\ pc = "publish"
    /\ df_existing # <<>>
    /\ published' = Append(published, Last(df_existing))
    /\ pc' = "alert"
    /\ UNCHANGED <<fetched, now, cutoff_time, idx, env_str, tag_pairs, multiplier,
                   mqtt_connected, df_sp, df_pv, df, anomaly_flags, df_existing,
                   files, alerts>>

\* PublishRow with iloc[[0]] for iloc[[-1]]: the first row of the window
PublishRow_first ==
    /\ pc = "publish"
    /\ df_existing # <<>>
    /\ mqtt_connected
    /\ published' = Append(published, df_existing[1])
    /\ pc' = "alert"
    /\ UNCHANGED <<fetched, now, cutoff_time, idx, env_str, tag_pairs, multiplier,
                   mqtt_connected, df_sp, df_pv, df, anomaly_flags, df_existing,
                   files, alerts>>

\* main.py:39-45, 101-102: the last row of the window goes to the bus
PublishRow ==
    /\ pc = "publish"
    /\ df_existing # <<>>
    /\ mqtt_connected
    /\ published' = Append(published, Last(df_existing))
    /\ pc' = "alert"
    /\ UNCHANGED <<fetched, now, cutoff_time, idx, env_str, tag_pairs, multiplier, mqtt_connected,
                   df_sp, df_pv, df, anomaly_flags, df_existing, files, alerts>>

\* main.py:46-47, 101: nothing to publish, or the client is not connected
PublishNothing ==
    /\ pc = "publish"
    /\ df_existing = <<>> \/ ~mqtt_connected
    /\ pc' = "alert"
    /\ UNCHANGED <<fetched, now, cutoff_time, idx, env_str, tag_pairs, multiplier, mqtt_connected,
                   df_sp, df_pv, df, anomaly_flags, df_existing, files, published, alerts>>

\* main.py:104-106
Alert ==
    /\ pc = "alert"
    /\ anomaly_flags
    /\ alerts' = alerts + 1
    /\ ToNextPair
    /\ UNCHANGED <<fetched, now, cutoff_time, env_str, tag_pairs, multiplier, mqtt_connected,
                   files, published>>

\* main.py:104: no row of the batch was flagged
NoAlert ==
    /\ pc = "alert"
    /\ ~anomaly_flags
    /\ ToNextPair
    /\ UNCHANGED <<fetched, now, cutoff_time, env_str, tag_pairs, multiplier, mqtt_connected,
                   files, published, alerts>>

\* main.py:110: time.sleep(FETCH_INTERVAL), which lasts at least the
\* interval, then the next turn of while True
Sleep ==
    /\ pc = "sleep"
    /\ \E t \in Instants :
          /\ t >= now + FetchIntervalMinutes
          /\ now' = t
    /\ pc' = "cycle"
    /\ UNCHANGED <<fetched, cutoff_time, idx, env_str, tag_pairs, multiplier, mqtt_connected,
                   df_sp, df_pv, df, anomaly_flags, df_existing, files, published, alerts>>

\* a minute passes while the scheduler waits for the historian
Tick ==
    /\ pc \in {"fetch_sp", "fetch_pv"}
    /\ now + 1 \in Instants
    /\ now' = now + 1
    /\ UNCHANGED <<fetched, pc, cutoff_time, idx, env_str, tag_pairs, multiplier, mqtt_connected,
                   df_sp, df_pv, df, anomaly_flags, df_existing, files, published, alerts>>

\* fetcher.py:31: requests.get is called without a timeout, so a request
\* the historian never answers never returns and raises nothing
RequestHangs ==
    /\ pc \in {"fetch_sp", "fetch_pv"}
    /\ pc' = "hung"
    /\ UNCHANGED <<fetched, now, cutoff_time, idx, env_str, tag_pairs, multiplier,
                   mqtt_connected, df_sp, df_pv, df, anomaly_flags, df_existing,
                   files, published, alerts>>

Next ==
    \/ StartCycle
    \/ FetchSetpoint
    \/ FetchFailedSkip
    \/ EmptyDataSkip
    \/ AlignAndDetect
    \/ UpdateBuffer
    \/ ReadFails
    \/ WriteFails
    \/ PublishRow
    \/ PublishNothing
    \/ Alert
    \/ NoAlert
    \/ Sleep
    \/ Tick
    \/ RequestHangs

Spec == Init /\ [][Next]_vars

-----------------------------------------------------------------------------
(* The scheduler configured with two pairs of one setpoint tag *)

\* TAG_PAIRS="SP1:PV1,SP1:PV2"
SharedSetpointEnv ==
    << "S", "P", "1", ":", "P", "V", "1", ",", "S", "P", "1", ":", "P", "V", "2" >>

InitShared ==
    /\ pc = "cycle"
    /\ now = 0
    /\ cutoff_time = 0
    /\ idx = 1
    /\ env_str = SharedSetpointEnv
    /\ tag_pairs = TagNames(parse_tag_pairs(SharedSetpointEnv))
    /\ multiplier \in Multipliers
    /\ mqtt_connected \in BOOLEAN
    /\ df_sp = None
    /\ df_pv = None
    /\ fetched = NotFetched
    /\ df = NoTable
    /\ anomaly_flags = FALSE
    /\ df_existing = NoTable
    /\ files = [t \in SetpointTags |-> NoFile]
    /\ published = <<>>
    /\ alerts = 0

SpecShared == InitShared /\ [][Next]_vars

-----------------------------------------------------------------------------
(* The detector on its own: every table of the bounded set is handed to it *)

\* the detector is given tables of at most this many rows
MaxRows == 3

\* Scenario A in tenths: setpoints 20.0, 20.0, 20.0, actuals 20.1, 19.9, 25.0
ScenarioA ==
    << [Timestamp |-> 0, SetPoint |-> Num(200), Actual |-> Num(201)],
       [Timestamp |-> 1, SetPoint |-> Num(200), Actual |-> Num(199)],
       [Timestamp |-> 2, SetPoint |-> Num(200), Actual |-> Num(250)] >>

DetectorActuals == {NaN, Num(199), Num(200), Num(201), Num(250)}

DetectorTables ==
    UNION { { [i \in 1..n |-> [Timestamp |-> i - 1, SetPoint |-> Num(200),
                                Actual |-> a[i]]] :
                a \in [1..n -> DetectorActuals] } : n \in 0..MaxRows }

DetectorMultipliers == Multipliers \cup { <<1, 1>> }

InitDetect ==
    /\ pc = "detect"
    /\ df \in DetectorTables
    /\ multiplier \in DetectorMultipliers
    /\ now = 0
    /\ cutoff_time = 0
    /\ idx = 1
    /\ env_str = TagPairsEnv
    /\ tag_pairs = TAG_PAIRS
    /\ mqtt_connected = FALSE
    /\ df_sp = None
    /\ df_pv = None
    /\ fetched = NotFetched
    /\ anomaly_flags = FALSE
    /\ df_existing = NoTable
    /\ files = [t \in SetpointTags |-> NoFile]
    /\ published = <<>>
    /\ alerts = 0

\* detector.py:11-43 on the table of one pair
Detect ==
    /\ pc = "detect"
    /\ df' = detect_anomalies(df, multiplier)
    /\ anomaly_flags' = AnyAnomaly(df')
    /\ pc' = "detected"
    /\ UNCHANGED <<now, cutoff_time, idx, env_str, tag_pairs, multiplier, mqtt_connected,
                   df_sp, df_pv, fetched, df_existing, files, published, alerts>>

NextDetect == Detect

SpecDetect == InitDetect /\ [][NextDetect]_vars

-----------------------------------------------------------------------------
(* The detector with the default multiplier on batches of up to         *)
(* MaxBatchRows rows                                                     *)

MaxBatchRows == 11

\* the actual values of the batches, the setpoint being 0
BatchValues == {0, 1, 2, 5, 9}

\* the sequences of n values of V in ascending order
RECURSIVE NonDecreasing(_, _)
NonDecreasing(n, V) ==
    IF n = 0 THEN {<<>>}
    ELSE UNION { { <<v>> \o s : s \in NonDecreasing(n - 1, { w \in V : w >= v }) } :
                 v \in V }

\* every batch of the two values 0 and 1 in every order of its rows, and
\* every batch of BatchValues with its rows in ascending order of value
BatchColumns ==
    UNION { [1..n -> {0, 1}] \cup NonDecreasing(n, BatchValues) :
            n \in 0..MaxBatchRows }

BatchTables ==
    { [i \in 1..Len(a) |-> [Timestamp |-> i - 1, SetPoint |-> Num(0),
                             Actual |-> Num(a[i])]] : a \in BatchColumns }

InitBatch ==
    /\ pc = "detect"
    /\ df \in BatchTables
    /\ multiplier = <<ANOMALY_STD_MULTIPLIER, 1>>
    /\ now = 0
    /\ cutoff_time = 0
    /\ idx = 1
    /\ env_str = TagPairsEnv
    /\ tag_pairs = TAG_PAIRS
    /\ mqtt_connected = FALSE
    /\ df_sp = None
    /\ df_pv = None
    /\ fetched = NotFetched
    /\ anomaly_flags = FALSE
    /\ df_existing = NoTable
    /\ files = [t \in SetpointTags |-> NoFile]
    /\ published = <<>>
    /\ alerts = 0

SpecBatch == InitBatch /\ [][NextDetect]_vars

-----------------------------------------------------------------------------
(* The alignment on its own: every pair of non-empty series of the bounded *)
(* set, null values included, is handed to it                              *)

\* a series handed to the alignment holds at most this many samples, at the
\* instants 0..MaxAlignSamples
MaxAlignSamples == 3

\* the unit in which the interpolation of MaxAlignSamples rows is exact
AlignScale == Factorial(MaxAlignSamples - 1)

AlignValues == {NaN, Num(AlignScale), Num(2 * AlignScale)}

\* the non-empty tables a successful fetch can return
AlignSeries ==
    LET stamps == { T \in SUBSET (0..MaxAlignSamples) :
                      T # {} /\ Cardinality(T) <= MaxAlignSamples }
    IN  UNION { { ResponseTable(f) : f \in [T -> AlignValues] } : T \in stamps }

InitAlign ==
    /\ pc = "align"
    /\ df_sp \in { [ok |-> TRUE, rows |-> r] : r \in AlignSeries }
    /\ df_pv \in { [ok |-> TRUE, rows |-> r] : r \in AlignSeries }
    /\ df = NoTable
    /\ now = 0
    /\ cutoff_time = 0
    /\ idx = 1
    /\ env_str = TagPairsEnv
    /\ tag_pairs = TAG_PAIRS
    /\ multiplier = <<ANOMALY_STD_MULTIPLIER, 1>>
    /\ mqtt_connected = FALSE
    /\ fetched = [sp |-> "data", pv |-> "data"]
    /\ anomaly_flags = FALSE
    /\ df_existing = NoTable
    /\ files = [t \in SetpointTags |-> NoFile]
    /\ published = <<>>
    /\ alerts = 0

\* main.py:70-82 on the two series of one pair
AlignPair ==
    /\ pc = "align"
    /\ df' = Align(df_sp.rows, df_pv.rows)
    /\ pc' = "aligned"
    /\ UNCHANGED <<now, cutoff_time, idx, env_str, tag_pairs, multiplier, mqtt_connected,
                   df_sp, df_pv, fetched, anomaly_flags, df_existing, files,
                   published, alerts>>

NextAlign == AlignPair

SpecAlign == InitAlign /\ [][NextAlign]_vars

-----------------------------------------------------------------------------
(* The parser of config.py on its own: every text of the bounded set, and *)
(* the text of Scenario B                                                  *)

\* the texts handed to the parser have at most this many characters
MaxText == 6

Characters == {"a", "b", " ", ",", ":"}

\* "SP1:PV1, bad_entry, SP2:PV2"
ScenarioB ==
    << "S", "P", "1", ":", "P", "V", "1", ",", " ",
       "b", "a", "d", "_", "e", "n", "t", "r", "y", ",", " ",
       "S", "P", "2", ":", "P", "V", "2" >>

Texts == UNION { [1..n -> Characters] : n \in 0..MaxText } \cup {ScenarioB}

InitParse ==
    /\ pc = "parse"
    /\ env_str \in Texts
    /\ tag_pairs = <<>>
    /\ now = 0
    /\ cutoff_time = 0
    /\ idx = 1
    /\ multiplier = <<ANOMALY_STD_MULTIPLIER, 1>>
    /\ mqtt_connected = FALSE
    /\ df_sp = None
    /\ df_pv = None
    /\ fetched = NotFetched
    /\ df = NoTable
    /\ anomaly_flags = FALSE
    /\ df_existing = NoTable
    /\ files = [t \in SetpointTags |-> NoFile]
    /\ published = <<>>
    /\ alerts = 0

\* config.py:26, the tag names kept as texts
Parse ==
    /\ pc = "parse"
    /\ tag_pairs' = parse_tag_pairs(env_str)
    /\ pc' = "parsed"
    /\ UNCHANGED <<now, cutoff_time, idx, env_str, multiplier, mqtt_connected,
                   df_sp, df_pv, fetched, df, anomaly_flags, df_existing, files,
                   published, alerts>>

NextParse == Parse

SpecParse == InitParse /\ [][NextParse]_vars

-----------------------------------------------------------------------------
(* The claims *)

RowsOf(tag) == files[tag].rows

\* C1: the buffer update is idempotent: for the pair's file (or no file yet)
\* and the batch at hand, updating twice with the same batch and the same
\* cutoff persists the same window as updating once.
C1_UpdateIdempotent ==
    pc = "update" =>
        LET once  == UpdateWindow(files[sp_tag], df, cutoff_time)
            twice == UpdateWindow([exists |-> TRUE, rows |-> once], df, cutoff_time)
        IN  twice = once

\* the window the rolling buffer is specified to hold after an update: the
\* old window followed by all rows of the batch, one row per timestamp (the
\* batch's on a duplicate), nothing older than the cutoff, ascending
ReferenceWindow(W, B, cutoff) ==
    LET all  == W \o B
        keep == { i \in 1..Len(all) :
                    /\ all[i].Timestamp >= cutoff
                    /\ \A j \in (i + 1)..Len(all) :
                          all[j].Timestamp # all[i].Timestamp }
        ts   == AscendingSeq({ all[i].Timestamp : i \in keep })
    IN  [n \in 1..Len(ts) |->
            all[CHOOSE i \in keep : all[i].Timestamp = ts[n]]]

\* C2: an update of an existing window persists the reference result: no
\* row of the window inside the retention is lost unless the batch has its
\* timestamp, and every row of the batch inside the retention is there.
C2_UpdateMatchesReference ==
    (pc = "update" /\ files[sp_tag].exists /\ df # <<>>) =>
        UpdateWindow(files[sp_tag], df, cutoff_time)
            = ReferenceWindow(files[sp_tag].rows, df, cutoff_time)

\* C3: right after the update of a pair, no row of its window is older than
\* the retention, counted back from the time of the update.
C3_RetentionAtUpdateTime ==
    pc = "publish" =>
        \A i \in 1..Len(RowsOf(sp_tag)) :
            RowsOf(sp_tag)[i].Timestamp >= now - Retention

\* C4: at the end of a cycle no pair's window, skipped pairs included,
\* holds a row older than the retention.
C4_NoStaleRowAtCycleEnd ==
    pc = "sleep" =>
        \A t \in SetpointTags : \A i \in 1..Len(RowsOf(t)) :
            RowsOf(t)[i].Timestamp >= now - Retention

\* C5: every persisted window has pairwise distinct timestamps, in
\* ascending order.
C5_UniqueAscending ==
    \A t \in SetpointTags :
        \A i \in 1..Len(RowsOf(t)) : \A j \in 1..Len(RowsOf(t)) :
            i < j => RowsOf(t)[i].Timestamp < RowsOf(t)[j].Timestamp

\* C5 witness: an update has merged a batch into an existing window and
\* left at least two rows, one of them older than the batch.
C5_Witness ==
    /\ pc = "publish"
    /\ Len(RowsOf(sp_tag)) >= 2
    /\ \E i \in 1..Len(RowsOf(sp_tag)) :
          \A j \in 1..Len(df) : df[j] # RowsOf(sp_tag)[i]

\* C6: every flagged row of a persisted window deviates from the mean of
\* the window's own error column by more than k times its standard
\* deviation.
C6_FlagsMatchWindowStats ==
    \A t \in SetpointTags :
        LET err == [i \in 1..Len(RowsOf(t)) |-> RowsOf(t)[i].Error]
        IN  \A i \in 1..Len(RowsOf(t)) :
                RowsOf(t)[i].Anomaly =>
                    Exceeds(err[i], Mean(err),
                            ThresholdSquared(multiplier, StdSquared(err)))

\* the rule of the detector, written out on the numbers of the error
\* column e (n of them, sum S, sum of squares Q) for the multiplier kn/kd:
\* |x - S/n| > (kn/kd) * sqrt((Q - S*S/n) / (n - 1)), both sides squared
\* and cleared of fractions
DeviatesBeyond(x, e, kn, kd) ==
    LET n == Len(e)
        S == SeqSum(e)
        Q == SeqSum([i \in 1..n |-> e[i] * e[i]])
    IN  /\ n >= 2
        /\ (n * x - S) * (n * x - S) * (n - 1) * kd * kd
               > kn * kn * n * (n * Q - S * S)

\* C7: the detector flags a row exactly when its error deviates from the
\* mean of the table's error column by more than k standard deviations of
\* that column, and flags nothing in a table of fewer than two rows.
C7_DetectorRule ==
    pc = "detected" =>
        LET e == ValidCells([i \in 1..Len(df) |-> ErrorOf(df[i])])
        IN  /\ \A i \in 1..Len(df) :
                  df[i].Anomaly <=>
                      /\ ~IsNaN(ErrorOf(df[i]))
                      /\ DeviatesBeyond(ErrorOf(df[i])[1], e,
                                        multiplier[1], multiplier[2])
            /\ Len(df) < 2 => \A i \in 1..Len(df) : ~df[i].Anomaly
            /\ anomaly_flags <=> \E i \in 1..Len(df) : df[i].Anomaly

\* C7 witness: a detected table of three rows with a flagged and an
\* unflagged row.
C7_Witness ==
    /\ pc = "detected"
    /\ Len(df) = 3
    /\ \E i \in 1..3 : df[i].Anomaly
    /\ \E i \in 1..3 : ~df[i].Anomaly

IsScenarioA ==
    /\ multiplier = <<3, 1>>
    /\ Len(df) = 3
    /\ \A i \in 1..3 :
          /\ df[i].Timestamp = ScenarioA[i].Timestamp
          /\ df[i].SetPoint = ScenarioA[i].SetPoint
          /\ df[i].Actual = ScenarioA[i].Actual

\* C8 as stated: on Scenario A with k = 3 the errors are -0.1, 0.1, -5.0,
\* the row at t2 alone is flagged and the pair-level boolean is true.
C8_ScenarioA_AsStated ==
    (pc = "detected" /\ IsScenarioA) =>
        /\ <<df[1].Error, df[2].Error, df[3].Error>> = <<Num(-1), Num(1), Num(-50)>>
        /\ ~df[1].Anomaly /\ ~df[2].Anomaly /\ df[3].Anomaly
        /\ anomaly_flags

\* C8 amended: on Scenario A with k = 3 the errors are -0.1, 0.1, -5.0, no
\* row is flagged and the pair-level boolean is false.
C8_ScenarioA ==
    (pc = "detected" /\ IsScenarioA) =>
        /\ <<df[1].Error, df[2].Error, df[3].Error>> = <<Num(-1), Num(1), Num(-50)>>
        /\ ~df[1].Anomaly /\ ~df[2].Anomaly /\ ~df[3].Anomaly
        /\ ~anomaly_flags

\* C8 witness: the detector has run on Scenario A with k = 3.
C8_Witness == pc = "detected" /\ IsScenarioA

\* the outcomes of a fetch that returned without samples
NoData == {"none", "empty"}

\* C9: when a fetch of the pair returned None or an empty series, the step
\* that handles the fetches ends the pair's turn: the scheduler is at the
\* next pair or at the sleep, no batch was built, and the files, the
\* published payloads and the alerts are as they were.
C9_SkipLeavesPairUntouched ==
    [][ (/\ pc = "fetch_pv"
         /\ pc' # "fetch_pv"
         /\ fetched'.sp \in NoData \/ fetched'.pv \in NoData)
        => /\ pc' \in {"fetch_sp", "sleep"}
           /\ df' = NoTable
           /\ files' = files
           /\ published' = published
           /\ alerts' = alerts ]_vars

\* C9 witness: a pair with a persisted window was skipped because the
\* fetch of its actual tag failed or returned nothing.
C9_Witness ==
    /\ pc \in {"fetch_sp", "sleep"}
    /\ fetched.sp = "data"
    /\ fetched.pv \in {"none", "empty"}
    /\ LET skipped == IF pc = "sleep" THEN tag_pairs[idx][1] ELSE tag_pairs[idx - 1][1]
       IN  files[skipped].exists /\ files[skipped].rows # <<>>

\* C10: no failure in a pair's pipeline ends the scheduler loop.
C10_LoopNeverAborts == pc \notin Crashed

\* C11: loading the pair's buffer file is never fatal: when the file is
\* missing, or is there but cannot be read, the update starts from an empty
\* window and persists the new batch as a first run does, and the cycle goes
\* on to the publish.
C11_LoadNeverFatal ==
    [][ pc = "update" =>
          /\ pc' # "read_error"
          /\ (pc' = "publish" /\ ~files[sp_tag].exists) =>
                files'[sp_tag] = [exists |-> TRUE,
                                  rows   |-> UpdateWindow(NoFile, df, cutoff_time)] ]_vars

Distance(a, b) == IF a >= b THEN a - b ELSE b - a

\* the actual samples within the tolerance of the instant t
ActualsNear(t) ==
    { j \in 1..Len(df_pv.rows) :
        Distance(df_pv.rows[j].Timestamp, t) <= ToleranceMinutes }

\* C12: the aligned table has a row only for a setpoint sample with an
\* actual sample within the tolerance, the row's actual value is the value
\* of such a sample, and a setpoint sample without one has no row.
C12_RowsOnlyForMatchedSamples ==
    pc = "aligned" =>
        /\ \A i \in 1..Len(df) :
              \E j \in ActualsNear(df[i].Timestamp) :
                  df[i].Actual = df_pv.rows[j].Value
        /\ \A s \in 1..Len(df_sp.rows) :
              ActualsNear(df_sp.rows[s].Timestamp) = {} =>
                  \A i \in 1..Len(df) : df[i].Timestamp # df_sp.rows[s].Timestamp

\* C13: whatever the two non-empty series, no cell of the setpoint column
\* or of the actual column of the aligned table is null.
C13_NoNullReachesDetector ==
    pc = "aligned" =>
        \A i \in 1..Len(df) : ~IsNaN(df[i].SetPoint) /\ ~IsNaN(df[i].Actual)

\* the statements of a pair's turn that follow the detection
AfterDetection == {"update", "publish", "alert"}

\* C14: within a cycle an alert is dispatched only at the alert decision of
\* a pair whose batch has a flagged row, and every pair's turn that reached
\* the detection ends with an alert exactly when its batch has a flagged
\* row.
C14_AlertIffFlagged ==
    [][ /\ (pc # "cycle" /\ alerts' # alerts) =>
              /\ pc = "alert"
              /\ AnyAnomaly(df)
              /\ alerts' = alerts + 1
        /\ (pc \in AfterDetection /\ pc' \notin AfterDetection) =>
              (alerts' = alerts + 1 <=> AnyAnomaly(df)) ]_vars

\* the positions of the character c in the text s
Positions(s, c) == { i \in 1..Len(s) : s[i] = c }

\* the text s without the spaces at its two ends
Trimmed(s) ==
    LET inked == { i \in 1..Len(s) : s[i] # " " }
        lo    == CHOOSE i \in inked : \A j \in inked : i <= j
        hi    == CHOOSE i \in inked : \A j \in inked : j <= i
    IN  IF inked = {} THEN <<>> ELSE SubSeq(s, lo, hi)

\* the entries of the text s: the stretches between its commas, in order
Entries(s) ==
    LET cuts == AscendingSeq(Positions(s, ",") \cup {0, Len(s) + 1})
    IN  [n \in 1..(Len(cuts) - 1) |-> SubSeq(s, cuts[n] + 1, cuts[n + 1] - 1)]

\* an entry has the form setpoint:actual when it holds exactly one colon
WellFormed(e) == Cardinality(Positions(e, ":")) = 1

\* the pair a well-formed entry stands for
PairOf(e) ==
    LET c == CHOOSE i \in Positions(e, ":") : TRUE
    IN  <<Trimmed(SubSeq(e, 1, c - 1)), Trimmed(SubSeq(e, c + 1, Len(e)))>>

\* C15: the parse of a text is the list, in the order of the text, of the
\* trimmed (setpoint, actual) pairs of its well-formed entries, one per
\* entry: a malformed entry contributes nothing and changes no other
\* entry's pair.  Scenario B parses to (SP1, PV1), (SP2, PV2), a text of
\* nothing but spaces to the empty list.
C15_ParseTagPairs ==
    pc = "parsed" =>
        LET e    == Entries(env_str)
            good == AscendingSeq({ n \in 1..Len(e) : WellFormed(e[n]) })
        IN  /\ tag_pairs = [n \in 1..Len(good) |-> PairOf(e[good[n]])]
            /\ env_str = ScenarioB =>
                  tag_pairs = << << <<"S", "P", "1">>, <<"P", "V", "1">> >>,
                                 << <<"S", "P", "2">>, <<"P", "V", "2">> >> >>
            /\ Trimmed(env_str) = <<>> => tag_pairs = <<>>

\* C15 witness: a text was parsed in which a malformed entry stands
\* between two well-formed ones, and both of their pairs came out.
C15_Witness ==
    /\ pc = "parsed"
    /\ LET e == Entries(env_str)
       IN  /\ Len(e) = 3
           /\ WellFormed(e[1]) /\ ~WellFormed(e[2]) /\ WellFormed(e[3])
    /\ Len(tag_pairs) = 2

\* C16: with the bus not connected, the publish step hands nothing to the
\* bus and raises nothing: the window it was given is the one already on
\* disk, the files stay as they are, the alert decision comes next and is
\* taken on the batch's flag, and the scheduler goes on to the next pair.
C16_UnconnectedPublish ==
    [][ ~mqtt_connected =>
          /\ published' = <<>>
          /\ pc = "publish" =>
                /\ files[sp_tag] = [exists |-> TRUE, rows |-> df_existing]
                /\ files' = files
                /\ anomaly_flags' = anomaly_flags
                /\ pc' = "alert"
          /\ pc = "alert" =>
                /\ pc' \in {"fetch_sp", "sleep"}
                /\ alerts' = alerts + 1 <=> anomaly_flags ]_vars

\* C16 witness: the bus is not connected, a window with rows was persisted,
\* the publish step is over with nothing published and the alert decision
\* is about to be taken on a flagged batch.
C16_Witness ==
    /\ ~mqtt_connected
    /\ pc = "alert"
    /\ RowsOf(sp_tag) # <<>>
    /\ RowsOf(sp_tag) = df_existing
    /\ published = <<>>
    /\ anomaly_flags

\* the row r of the table has the greatest timestamp, and it alone
IsNewestRow(r, rows) ==
    \E i \in 1..Len(rows) :
        /\ rows[i] = r
        /\ \A j \in 1..Len(rows) : j # i => rows[j].Timestamp < r.Timestamp

\* C17: a row is published only by the publish step, which runs right after
\* the write of the pair's window and leaves the file alone: the row is the
\* one of greatest timestamp in the window on disk, and nothing is
\* published of an empty window.
C17_PublishesNewestPersistedRow ==
    [][ /\ (pc # "cycle" /\ published' # published) =>
              /\ pc = "publish"
              /\ files' = files
              /\ \E r \in { RowsOf(sp_tag)[i] : i \in 1..Len(RowsOf(sp_tag)) } :
                    /\ IsNewestRow(r, RowsOf(sp_tag))
                    /\ published' = Append(published, r)
        /\ (pc = "publish" /\ RowsOf(sp_tag) = <<>>) => published' = published
        /\ pc' = "publish" =>
              /\ pc = "update"
              /\ files'[sp_tag] = [exists |-> TRUE, rows |-> df_existing'] ]_vars

\* C17 witness: a row of a window of two or more rows was just published.
C17_Witness ==
    /\ pc = "alert"
    /\ published # <<>>
    /\ Len(RowsOf(sp_tag)) >= 2
    /\ Last(published) = Last(RowsOf(sp_tag))

WindowOf(q) == files[tag_pairs[q][1]]

\* C19: while a pair is processed, the persisted window of every other
\* configured pair stays as it is, also when the two pairs have the same
\* setpoint tag.
C19_OtherPairsWindowUntouched ==
    [][ \A q \in 1..Len(tag_pairs) :
          q # idx => WindowOf(q)' = WindowOf(q) ]_vars

\* C20: no request to the historian stalls the scheduler: the scheduler is
\* never inside a fetch call that does not return.
C20_EveryFetchReturns == pc # "hung"

Max(a, b) == IF a >= b THEN a ELSE b

\* C21: once the file of a window exists, no step grows the window: the
\* rows it holds afterwards are at most max(1, the rows it held before).
\* A window on disk is never empty, so the sizes of a window never
\* increase from the batch written on the first run on.
C21_WindowNeverGrows ==
    [][ \A t \in SetpointTags :
          /\ files[t].exists =>
                Len(files'[t].rows) <= Max(1, Len(files[t].rows))
          /\ files'[t].exists => Len(files'[t].rows) >= 1 ]_vars

\* C21 witness: a batch of two rows was merged into an existing window,
\* which holds two rows afterwards: an older one and the batch's last.
C21_Witness ==
    /\ pc = "publish"
    /\ Len(df) = 2
    /\ Len(RowsOf(sp_tag)) = 2
    /\ RowsOf(sp_tag)[1].Timestamp < df[1].Timestamp
    /\ RowsOf(sp_tag)[2] = df[2]

\* C22: with the default multiplier 3 the detector flags no row of a batch
\* of 10 or fewer rows, and the pair-level boolean of such a batch is
\* false.
C22_SmallBatchNeverFlagged ==
    (pc = "detected" /\ multiplier = <<3, 1>> /\ Len(df) <= 10) =>
        /\ \A i \in 1..Len(df) : ~df[i].Anomaly
        /\ ~anomaly_flags

\* C22 witness: the detector has run with the multiplier 3 on a batch of
\* 10 rows of which one alone deviates from the nine others.
C22_Witness ==
    /\ pc = "detected"
    /\ multiplier = <<3, 1>>
    /\ Len(df) = 10
    /\ \E i \in 1..10 :
          /\ df[i].Error # Num(0)
          /\ \A j \in (1..10) \ {i} : df[j].Error = Num(0)

\* a batch of more than 10 rows with a flagged row
LargeBatchFlagged == pc = "detected" /\ Len(df) > 10 /\ anomaly_flags

====
